---- MODULE Spec2Model ----
(***************************************************************************)
(* Model of python/graminelibos/regression.py: RegressionTestCase's        *)
(* supervised execution of one child process (run_binary and               *)
(* run_native_binary), the forwarding of its output (print_output) and     *)
(* the expect_returncode context manager around it.                        *)
(*                                                                         *)
(* One behaviour is one test: an optional `with expect_returncode(C):`     *)
(* whose body is one call of run_binary or run_native_binary.  The child   *)
(* process, its descendants and the kernel are the environment: they take  *)
(* their steps interleaved with the steps of the harness.                  *)
(***************************************************************************)
EXTENDS Integers, Sequences, FiniteSets, TLC

\* ---------------------------------------------------------------- bounds
\* number of descendants the launched process family may fork
MaxDesc == 1
\* number of write() calls the process family makes on its two pipes
MaxWrites == 1
\* exit codes of the target are 0..MaxExitCode
MaxExitCode == 2
\* largest timeout a caller requests
MaxRequested == 25

\* ------------------------------------------------------- program constants
\* signal.SIGKILL
SIGKILL == 9

\* an optional value: <<>> is None, <<v>> is the value v
None == <<>>
Some(v) == <<v>>

Max(a, b) == IF a >= b THEN a ELSE b

\* what one write() of the child writes: "A", U+00E9 in UTF-8, and a byte
\* that is not valid UTF-8
Chunks == {<<65>>, <<195, 169>>, <<255>>}

ExitCodes == 0..MaxExitCode

\* the codes a test expects: zero, and a nonzero one
ExpectedCodes == {0, 1}

\* the timeouts a caller passes: none, zero, and the largest
RequestedTimeouts == {None, Some(0), Some(MaxRequested)}

\* ------------------------------------------------------------ bytes.decode
IsCont(b) == b \in 128..191

\* the byte of s at position i + k, or -1 past the end
ByteAt(s, i) == IF i <= Len(s) THEN s[i] ELSE -1

\* length of the well-formed UTF-8 sequence that starts at s[i], 0 if none
Utf8SeqLen(s, i) ==
    LET b0 == s[i]
        b1 == ByteAt(s, i + 1)
        b2 == ByteAt(s, i + 2)
        b3 == ByteAt(s, i + 3)
    IN  IF b0 < 128 THEN 1
        ELSE IF b0 \in 194..223 /\ IsCont(b1) THEN 2
        ELSE IF b0 = 224 /\ b1 \in 160..191 /\ IsCont(b2) THEN 3
        ELSE IF (b0 \in 225..236 \/ b0 \in 238..239) /\ IsCont(b1) /\ IsCont(b2) THEN 3
        ELSE IF b0 = 237 /\ b1 \in 128..159 /\ IsCont(b2) THEN 3
        ELSE IF b0 = 240 /\ b1 \in 144..191 /\ IsCont(b2) /\ IsCont(b3) THEN 4
        ELSE IF b0 \in 241..243 /\ IsCont(b1) /\ IsCont(b2) /\ IsCont(b3) THEN 4
        ELSE IF b0 = 244 /\ b1 \in 128..143 /\ IsCont(b2) /\ IsCont(b3) THEN 4
        ELSE 0

\* the code point of the well-formed sequence of n bytes at s[i]
Utf8CodePoint(s, i, n) ==
    IF n = 1 THEN s[i]
    ELSE IF n = 2 THEN (s[i] - 192) * 64 + (s[i + 1] - 128)
    ELSE IF n = 3 THEN (s[i] - 224) * 4096 + (s[i + 1] - 128) * 64 + (s[i + 2] - 128)
    ELSE (s[i] - 240) * 262144 + (s[i + 1] - 128) * 4096
             + (s[i + 2] - 128) * 64 + (s[i + 3] - 128)

\* bytes.decode(): [ok, text]; errors = "strict" gives up at the first
\* ill-formed byte, errors = "surrogateescape" maps it to U+DC00 + byte
RECURSIVE DecodeFrom(_, _, _)
DecodeFrom(s, i, errors) ==
    IF i > Len(s) THEN [ok |-> TRUE, text |-> <<>>]
    ELSE LET n == Utf8SeqLen(s, i)
         IN  IF n = 0
             THEN IF errors = "strict"
                  THEN [ok |-> FALSE, text |-> <<>>]
                  ELSE LET rest == DecodeFrom(s, i + 1, errors)
                       IN  [ok |-> rest.ok, text |-> <<56320 + s[i]>> \o rest.text]
             ELSE LET rest == DecodeFrom(s, i + n, errors)
                  IN  [ok |-> rest.ok,
                       text |-> <<Utf8CodePoint(s, i, n)>> \o rest.text]

\* stdout.decode()
Decode(s) == DecodeFrom(s, 1, "strict")

\* stdout.decode(errors='surrogateescape')
DecodeSurrogateEscape(s) == DecodeFrom(s, 1, "surrogateescape").text

\* str.encode(errors='surrogateescape') of one code point: the inverse the
\* claims about verbatim output are stated with
EncodeCodePoint(cp) ==
    IF cp \in 56448..56575 THEN <<cp - 56320>>
    ELSE IF cp < 128 THEN <<cp>>
    ELSE IF cp < 2048 THEN <<192 + (cp \div 64), 128 + (cp % 64)>>
    ELSE IF cp < 65536
         THEN <<224 + (cp \div 4096), 128 + ((cp \div 64) % 64), 128 + (cp % 64)>>
    ELSE <<240 + (cp \div 262144), 128 + ((cp \div 4096) % 64),
           128 + ((cp \div 64) % 64), 128 + (cp % 64)>>

RECURSIVE Encode(_)
Encode(text) ==
    IF text = <<>> THEN <<>>
    ELSE EncodeCodePoint(Head(text)) \o Encode(Tail(text))

\* ------------------------------------------------------------ environments
\* An environment maps each name to None (not set) or Some(value); a value
\* is a string, kept as the sequence of its pieces.
Names == {"LD_PRELOAD", "LD_LIBRARY_PATH", "HOME"}

Values == {<<"a">>, <<"b">>}

Environs == [Names -> {None} \cup {Some(v) : v \in Values}]

\* env.get(name, default)
Get(e, name, default) == IF e[name] = None THEN default ELSE e[name][1]

\* fspath(self.pal_path / 'gdb_integration/sgx_gdb.so')
sgx_gdb == <<"sgx_gdb.so">>

\* ------------------------------------------------------------------ state
VARIABLES
    HAS_SGX,        \* os.environ.get('SGX') == '1'
    entry,          \* the entry point the test calls
    reqTimeout,     \* the timeout argument: None or Some(seconds)
    expected,       \* the C of `with expect_returncode(C):` around the call
    loaderExists,   \* self.loader_path.exists()
    libpalExists,   \* self.libpal_path.exists()
    execOk,         \* the OS accepts to create the process
    targetExists,   \* the binary named by args[0] exists on disk
    environ,        \* os.environ of the harness
    libpath,        \* the libpath argument of run_native_binary
    env,            \* the env keyword that reaches run_binary: None or Some
    childEnv,       \* the environment of the created process, once created
    peer,           \* another invocation, running in another test at the
                    \* same time: its own position, kills, status and outcome
    pc,             \* the position of the harness
    timeout,        \* the local variable timeout (0 before it is assigned)
    now,            \* seconds since communicate() was called: 0 stands for
                    \* any time before the deadline
    procs,          \* the process table: the child and its descendants
    exitStatus,     \* wait status of the child once it is a zombie
    outBytes,       \* everything written to the stdout pipe
    errBytes,       \* everything written to the stderr pipe
    writes,         \* number of write() calls made on the pipes
    stdout,         \* the local variable stdout (bytes)
    stderr,         \* the local variable stderr (bytes)
    returncode,     \* process.returncode: None or Some(status)
    sysStdout,      \* what was written to sys.stdout (code points)
    sysStderr,      \* what was written to sys.stderr (code points)
    outcome,        \* how the call of run_binary / run_native_binary ended
    testOutcome,    \* how the test body (with its helper) ended
    kills,          \* number of os.killpg calls made
    prints,         \* number of print_output calls made
    timedOut,       \* communicate() raised TimeoutExpired
    exitInTime,     \* the child exited by itself before the timeout
    completeInTime  \* exit and both EOFs were there before the timeout

\* what no step of this invocation changes: its arguments and surroundings,
\* and the locals of the other invocation
params == <<HAS_SGX, entry, reqTimeout, expected, loaderExists, libpalExists, execOk,
            targetExists, environ, libpath, peer>>
inputs == <<params, env, childEnv>>
harness == <<pc, timeout, stdout, stderr, returncode, sysStdout, sysStderr,
             outcome, testOutcome, kills, prints, timedOut>>
family == <<procs, exitStatus, outBytes, errBytes, writes, exitInTime, completeInTime>>
vars == <<inputs, harness, family, now>>

\* process ids: the child Popen creates, and the descendants it may fork
Leader == 1
Descendants == 2..(1 + MaxDesc)
Pids == {Leader} \cup Descendants

\* the child of the other invocation, and the process table of the system
PeerLeader == MaxDesc + 2
AllPids == Pids \cup {PeerLeader}

\* the other invocation before its Popen
NoPeer == [pc |-> "idle", kills |-> 0, status |-> None, returncode |-> None,
           outcome |-> "None"]

NoProc == [state |-> "none", pgid |-> 0, holds |-> FALSE]

\* a process that can still run code of the target
Alive(p) == procs[p].state = "running"

\* the write ends of the pipes are open in p
HoldsPipes(ps, p) == ps[p].state \in {"running", "dying"} /\ ps[p].holds

\* what communicate() waits for: both pipes at end-of-stream and the child
\* waitable
CompleteIn(ps) ==
    /\ ps[Leader].state = "zombie"
    /\ \A p \in Pids : ~HoldsPipes(ps, p)

Complete == CompleteIn(procs)

\* the outcome of a call (an exception, or the returned pair)
Outcome(kind, rc, out, err, t, msg) ==
    [kind |-> kind, returncode |-> rc, stdout |-> out, stderr |-> err,
     timeout |-> t, msg |-> msg, expected |-> None]

NoOutcome == Outcome("None", None, <<>>, <<>>, None, "")

\* RegressionTestCase.DEFAULT_TIMEOUT
DEFAULT_TIMEOUT == IF HAS_SGX THEN 20 ELSE 10

\* the requested timeout taken as it is, without the max
RequestedOrDefault(default, requested) ==
    IF requested # None THEN requested[1] ELSE default

\* timeout = max(DEFAULT_TIMEOUT, timeout) if timeout is not None else DEFAULT_TIMEOUT
EffectiveTimeout(default, requested) ==
    IF requested # None THEN Max(default, requested[1]) ELSE default

\* the state of a test before its first statement
InitRun ==
    /\ pc = "expect_enter"
    /\ timeout = 0
    /\ now = 0
    /\ procs = [p \in AllPids |-> NoProc]
    /\ exitStatus = None
    /\ outBytes = <<>>
    /\ errBytes = <<>>
    /\ writes = 0
    /\ stdout = <<>>
    /\ stderr = <<>>
    /\ returncode = None
    /\ sysStdout = <<>>
    /\ sysStderr = <<>>
    /\ outcome = NoOutcome
    /\ testOutcome = NoOutcome
    /\ kills = 0
    /\ prints = 0
    /\ timedOut = FALSE
    /\ exitInTime = FALSE
    /\ completeInTime = FALSE
    /\ childEnv = None
    /\ peer = NoPeer

\* The tests that call run_binary or run_native_binary on a binary that
\* exists, with no env and no libpath, in an environment that sets nothing
\* of interest.
Init ==
    /\ HAS_SGX \in BOOLEAN
    /\ entry \in {"run_binary", "run_native_binary"}
    /\ reqTimeout \in RequestedTimeouts
    /\ expected \in ExpectedCodes
    /\ loaderExists \in BOOLEAN
    /\ libpalExists \in BOOLEAN
    /\ execOk \in BOOLEAN
    \* run_native_binary never looks at the loader and libpal
    /\ entry = "run_native_binary" => loaderExists /\ libpalExists
    /\ targetExists = TRUE
    /\ environ = [n \in Names |-> None]
    /\ libpath = None
    /\ env = None
    /\ InitRun

\* ------------------------------------------------------------ the harness

\* expect_returncode without the check of its argument
ExpectReturncodeEnterNoCheck ==
    /\ pc = "expect_enter"
    /\ pc' = "call"
    /\ UNCHANGED <<inputs, timeout, stdout, stderr, returncode, sysStdout, sysStderr,
                   outcome, testOutcome, kills, prints, timedOut, family, now>>

\* expect_returncode: up to the yield
ExpectReturncodeEnter ==
    /\ pc = "expect_enter"
    /\ IF expected = 0
       THEN /\ testOutcome' = Outcome("ValueError", None, <<>>, <<>>, None,
                                      "expected returncode should be nonzero")
            /\ pc' = "done"
       ELSE /\ pc' = "call"
            /\ UNCHANGED testOutcome
    /\ UNCHANGED <<inputs, timeout, stdout, stderr, returncode, sysStdout, sysStderr,
                   outcome, kills, prints, timedOut, family, now>>

\* run_binary without the checks of the loader and of libpal
RunBinaryBeginNoCheck ==
    /\ \/ pc = "call" /\ entry = "run_binary"
       \/ pc = "run_binary"
    /\ timeout' = EffectiveTimeout(DEFAULT_TIMEOUT, reqTimeout)
    /\ pc' = "popen"
    /\ UNCHANGED <<inputs, stdout, stderr, returncode, sysStdout, sysStderr,
                   outcome, testOutcome, kills, prints, timedOut, family, now>>

\* run_gdb: env is a copy of os.environ, with sgx_gdb.so put in front of
\* LD_PRELOAD under SGX; then run_binary is called with it
RunGdbBegin ==
    /\ pc = "call"
    /\ entry = "run_gdb"
    /\ env' = Some(IF HAS_SGX
                   THEN [environ EXCEPT !["LD_PRELOAD"] =
                            Some(sgx_gdb \o <<":">> \o Get(environ, "LD_PRELOAD", <<>>))]
                   ELSE environ)
    /\ pc' = "run_binary"
    /\ UNCHANGED <<params, childEnv, timeout, stdout, stderr, returncode, sysStdout,
                   sysStderr, outcome, testOutcome, kills, prints, timedOut, family, now>>

\* run_binary, called by the test or by run_gdb: the timeout and the checks
\* of the loader and of libpal
RunBinaryBegin ==
    /\ \/ pc = "call" /\ entry = "run_binary"
       \/ pc = "run_binary"
    /\ timeout' = EffectiveTimeout(DEFAULT_TIMEOUT, reqTimeout)
    /\ IF ~loaderExists
       THEN /\ outcome' = Outcome("ConfigError", None, <<>>, <<>>, None, "loader not found")
            /\ pc' = "returned"
       ELSE IF ~libpalExists
       THEN /\ outcome' = Outcome("ConfigError", None, <<>>, <<>>, None, "libpal not found")
            /\ pc' = "returned"
       ELSE /\ pc' = "popen"
            /\ UNCHANGED outcome
    /\ UNCHANGED <<inputs, stdout, stderr, returncode, sysStdout, sysStderr,
                   testOutcome, kills, prints, timedOut, family, now>>

\* a my_env that starts from an empty dict when libpath is given
my_env_fresh ==
    IF libpath # None
    THEN [n \in Names |-> IF n = "LD_LIBRARY_PATH" THEN Some(libpath[1]) ELSE None]
    ELSE environ

\* my_env of run_native_binary: a copy of os.environ where libpath, when
\* given, is the value of LD_LIBRARY_PATH
my_env ==
    IF libpath # None
    THEN [environ EXCEPT !["LD_LIBRARY_PATH"] = Some(libpath[1])]
    ELSE environ

\* The env argument Popen gets: my_env in run_native_binary, the env keyword
\* of the caller in run_binary. Popen gives the child the mapping it is
\* passed, and the environment of the harness when it is passed None.
PopenEnv ==
    IF entry = "run_native_binary" THEN my_env
    ELSE IF env # None THEN env[1]
    ELSE environ

\* run_native_binary: the timeout
RunNativeBinaryBegin ==
    /\ pc = "call"
    /\ entry = "run_native_binary"
    /\ timeout' = EffectiveTimeout(DEFAULT_TIMEOUT, reqTimeout)
    /\ pc' = "popen"
    /\ UNCHANGED <<inputs, stdout, stderr, returncode, sysStdout, sysStderr,
                   outcome, testOutcome, kills, prints, timedOut, family, now>>

\* Popen without preexec_fn=os.setpgrp: the child stays in the process
\* group of the harness (group 0 here)
PopenNoSetpgrp ==
    /\ pc = "popen"
    /\ IF execOk
       THEN /\ procs' = [procs EXCEPT ![Leader] =
                    [state |-> "running", pgid |-> 0, holds |-> TRUE]]
            /\ childEnv' = Some(PopenEnv)
            /\ pc' = "communicate"
            /\ UNCHANGED outcome
       ELSE /\ outcome' = Outcome("LaunchError", None, <<>>, <<>>, None, "OSError")
            /\ pc' = "returned"
            /\ UNCHANGED <<procs, childEnv>>
    /\ UNCHANGED <<params, env, timeout, stdout, stderr, returncode, sysStdout,
                   sysStderr, testOutcome, kills, prints, timedOut,
                   exitStatus, outBytes, errBytes, writes, exitInTime, completeInTime, now>>

\* Popen whose OSError is caught and turned into a CalledProcessError with
\* the returncode 127 of a shell that finds no command
PopenErrorAsExit ==
    /\ pc = "popen"
    /\ IF execOk
       THEN /\ procs' = [procs EXCEPT ![Leader] =
                    [state |-> "running", pgid |-> Leader, holds |-> TRUE]]
            /\ childEnv' = Some(PopenEnv)
            /\ pc' = "communicate"
            /\ UNCHANGED outcome
       ELSE /\ outcome' = Outcome("NonZeroExit", Some(127), <<>>, <<>>, None, "")
            /\ pc' = "returned"
            /\ UNCHANGED <<procs, childEnv>>
    /\ UNCHANGED <<params, env, timeout, stdout, stderr, returncode, sysStdout,
                   sysStderr, testOutcome, kills, prints, timedOut,
                   exitStatus, outBytes, errBytes, writes, exitInTime, completeInTime, now>>

\* subprocess.Popen(..., stdout=PIPE, stderr=PIPE, preexec_fn=os.setpgrp):
\* it returns once the child has run setpgrp and exec, or raises OSError
Popen ==
    /\ pc = "popen"
    /\ IF execOk
       THEN /\ procs' = [procs EXCEPT ![Leader] =
                    [state |-> "running", pgid |-> Leader, holds |-> TRUE]]
            /\ childEnv' = Some(PopenEnv)
            /\ pc' = "communicate"
            /\ UNCHANGED outcome
       ELSE /\ outcome' = Outcome("LaunchError", None, <<>>, <<>>, None, "OSError")
            /\ pc' = "returned"
            /\ UNCHANGED <<procs, childEnv>>
    /\ UNCHANGED <<params, env, timeout, stdout, stderr, returncode, sysStdout,
                   sysStderr, testOutcome, kills, prints, timedOut,
                   exitStatus, outBytes, errBytes, writes, exitInTime, completeInTime, now>>

\* communicate() returns and the group is killed all the same, as a kill
\* in a finally clause would do
CommunicateReturnKill ==
    /\ pc = "communicate"
    /\ Complete
    /\ procs' = [procs EXCEPT ![Leader].state = "reaped"]
    /\ returncode' = exitStatus
    /\ stdout' = outBytes
    /\ stderr' = errBytes
    /\ kills' = kills + 1
    /\ pc' = "print_output"
    /\ UNCHANGED <<inputs, timeout, sysStdout, sysStderr, outcome, testOutcome,
                   prints, timedOut, exitStatus, outBytes, errBytes, writes, exitInTime, completeInTime, now>>

\* process.communicate(timeout=timeout) returns: both pipes were read to
\* end-of-stream and the child was waited for
CommunicateReturn ==
    /\ pc = "communicate"
    /\ Complete
    /\ procs' = [procs EXCEPT ![Leader].state = "reaped"]
    /\ returncode' = exitStatus
    /\ stdout' = outBytes
    /\ stderr' = errBytes
    /\ pc' = "print_output"
    /\ UNCHANGED <<inputs, timeout, sysStdout, sysStderr, outcome, testOutcome, kills,
                   prints, timedOut, exitStatus, outBytes, errBytes, writes, exitInTime, completeInTime, now>>

\* process.communicate(timeout=timeout) raises TimeoutExpired
CommunicateTimeout ==
    /\ pc = "communicate"
    /\ now >= timeout
    /\ timedOut' = TRUE
    /\ pc' = "killpg"
    /\ UNCHANGED <<inputs, timeout, stdout, stderr, returncode, sysStdout, sysStderr,
                   outcome, testOutcome, kills, prints, family, now>>

\* the processes os.killpg(pgid, SIGKILL) signals
GroupMembers(pgid) ==
    {p \in AllPids : procs[p].pgid = pgid /\ procs[p].state \in {"running", "dying", "zombie"}}

\* a kill of the child alone, os.kill(process.pid, signal.SIGKILL), in the
\* place of the kill of its group
KillLeaderOnly ==
    /\ pc = "killpg"
    /\ kills' = kills + 1
    /\ procs' = [procs EXCEPT ![Leader].state =
                    IF @ = "running" THEN "dying" ELSE @]
    /\ pc' = "fail"
    /\ UNCHANGED <<inputs, timeout, stdout, stderr, returncode, sysStdout, sysStderr,
                   outcome, testOutcome, prints, timedOut,
                   exitStatus, outBytes, errBytes, writes, exitInTime, completeInTime, now>>

\* a kill with a signal the members of the group may ignore (SIGTERM in
\* place of SIGKILL): nothing is bound to terminate
KillpgIgnored ==
    /\ pc = "killpg"
    /\ kills' = kills + 1
    /\ pc' = "fail"
    /\ UNCHANGED <<inputs, timeout, stdout, stderr, returncode, sysStdout, sysStderr,
                   outcome, testOutcome, prints, timedOut, family, now>>

\* a kill of every process the harness may signal, os.kill(-1, SIGKILL), in
\* the place of the kill of the group of the child
KillEveryProcess ==
    /\ pc = "killpg"
    /\ kills' = kills + 1
    /\ procs' = [p \in AllPids |->
                    IF procs[p].state = "running"
                    THEN [procs[p] EXCEPT !.state = "dying"]
                    ELSE procs[p]]
    /\ pc' = "fail"
    /\ UNCHANGED <<inputs, timeout, stdout, stderr, returncode, sysStdout, sysStderr,
                   outcome, testOutcome, prints, timedOut,
                   exitStatus, outBytes, errBytes, writes, exitInTime, completeInTime, now>>

\* except subprocess.TimeoutExpired: os.killpg(process.pid, signal.SIGKILL)
Killpg ==
    /\ pc = "killpg"
    /\ kills' = kills + 1
    /\ IF GroupMembers(Leader) # {}
       THEN /\ procs' = [p \in AllPids |->
                    IF p \in GroupMembers(Leader) /\ procs[p].state = "running"
                    THEN [procs[p] EXCEPT !.state = "dying"]
                    ELSE procs[p]]
            /\ pc' = "fail"
            /\ UNCHANGED outcome
       ELSE /\ outcome' = Outcome("ProcessLookupError", None, <<>>, <<>>, None, "")
            /\ pc' = "popen_exit"
            /\ UNCHANGED procs
    /\ UNCHANGED <<inputs, timeout, stdout, stderr, returncode, sysStdout, sysStderr,
                   testOutcome, prints, timedOut,
                   exitStatus, outBytes, errBytes, writes, exitInTime, completeInTime, now>>

\* a run_native_binary whose except clause kills the group and does not
\* raise: the call goes on to return what it has
FailTimeoutNativeSilent ==
    /\ pc = "fail"
    /\ outcome' = IF entry = "run_binary"
                  THEN Outcome("Timeout", None, <<>>, <<>>, Some(timeout), "timeout expired")
                  ELSE outcome
    /\ pc' = "popen_exit"
    /\ UNCHANGED <<inputs, timeout, stdout, stderr, returncode, sysStdout, sysStderr,
                   testOutcome, kills, prints, timedOut, family, now>>

\* self.fail('timeout ({} s) expired'.format(timeout)), and the
\* raise AssertionError(...) of run_native_binary
FailTimeout ==
    /\ pc = "fail"
    /\ outcome' = Outcome("Timeout", None, <<>>, <<>>, Some(timeout), "timeout expired")
    /\ pc' = "popen_exit"
    /\ UNCHANGED <<inputs, timeout, stdout, stderr, returncode, sysStdout, sysStderr,
                   testOutcome, kills, prints, timedOut, family, now>>

\* the output forwarded as it arrives, while communicate() still waits
PrintOutputWhileWaiting ==
    /\ pc = "communicate"
    /\ prints = 0
    /\ sysStdout' = sysStdout \o DecodeSurrogateEscape(outBytes)
    /\ sysStderr' = sysStderr \o DecodeSurrogateEscape(errBytes)
    /\ prints' = prints + 1
    /\ UNCHANGED <<inputs, pc, timeout, stdout, stderr, returncode,
                   outcome, testOutcome, kills, timedOut, family, now>>

\* the output forwarded only when the child succeeded, as a print_output
\* placed after the check of the returncode would do
PrintOutputOnSuccess ==
    /\ pc = "print_output"
    /\ IF returncode[1] = 0
       THEN /\ sysStdout' = sysStdout \o DecodeSurrogateEscape(stdout)
            /\ sysStderr' = sysStderr \o DecodeSurrogateEscape(stderr)
            /\ prints' = prints + 1
       ELSE UNCHANGED <<sysStdout, sysStderr, prints>>
    /\ pc' = "check_returncode"
    /\ UNCHANGED <<inputs, timeout, stdout, stderr, returncode,
                   outcome, testOutcome, kills, timedOut, family, now>>

\* print_output(stdout, stderr)
PrintOutput ==
    /\ pc = "print_output"
    /\ sysStdout' = sysStdout \o DecodeSurrogateEscape(stdout)
    /\ sysStderr' = sysStderr \o DecodeSurrogateEscape(stderr)
    /\ prints' = prints + 1
    /\ pc' = "check_returncode"
    /\ UNCHANGED <<inputs, timeout, stdout, stderr, returncode,
                   outcome, testOutcome, kills, timedOut, family, now>>

\* CalledProcessError built with stderr and stdout in each other's place
CheckReturncodeSwapped ==
    /\ pc = "check_returncode"
    /\ IF returncode[1] # 0
       THEN outcome' = Outcome("NonZeroExit", returncode, stderr, stdout, None, "")
       ELSE UNCHANGED outcome
    /\ pc' = "popen_exit"
    /\ UNCHANGED <<inputs, timeout, stdout, stderr, returncode, sysStdout, sysStderr,
                   testOutcome, kills, prints, timedOut, family, now>>

\* if process.returncode: raise subprocess.CalledProcessError(...)
CheckReturncode ==
    /\ pc = "check_returncode"
    /\ IF returncode[1] # 0
       THEN outcome' = Outcome("NonZeroExit", returncode, stdout, stderr, None, "")
       ELSE UNCHANGED outcome
    /\ pc' = "popen_exit"
    /\ UNCHANGED <<inputs, timeout, stdout, stderr, returncode, sysStdout, sysStderr,
                   testOutcome, kills, prints, timedOut, family, now>>

\* the end of the with block, Popen.__exit__: the pipes are closed and the
\* child is waited for without a timeout
PopenExit ==
    /\ pc = "popen_exit"
    /\ procs[Leader].state \in {"zombie", "reaped"}
    /\ procs' = [procs EXCEPT ![Leader].state = "reaped"]
    /\ returncode' = IF returncode = None THEN exitStatus ELSE returncode
    /\ pc' = IF outcome.kind = "None" THEN "decode" ELSE "returned"
    /\ UNCHANGED <<inputs, timeout, stdout, stderr, sysStdout, sysStderr,
                   outcome, testOutcome, kills, prints, timedOut,
                   exitStatus, outBytes, errBytes, writes, exitInTime, completeInTime, now>>

\* return stdout.decode(), stderr.decode()
ReturnDecoded ==
    /\ pc = "decode"
    /\ LET o == Decode(stdout)
           e == Decode(stderr)
       IN  outcome' = IF o.ok /\ e.ok
                      THEN Outcome("Success", None, o.text, e.text, None, "")
                      ELSE Outcome("UnicodeDecodeError", None, <<>>, <<>>, None, "")
    /\ pc' = "returned"
    /\ UNCHANGED <<inputs, timeout, stdout, stderr, returncode, sysStdout, sysStderr,
                   testOutcome, kills, prints, timedOut, family, now>>

\* a helper that takes any CalledProcessError for the expected failure
ExpectAnyReturncode(o, C) ==
    IF o.kind = "Success"
    THEN [Outcome("DidNotFail", None, <<>>, <<>>, None, "did not fail")
             EXCEPT !.expected = Some(C)]
    ELSE IF o.kind = "NonZeroExit"
    THEN Outcome("Pass", None, <<>>, <<>>, None, "")
    ELSE o

\* a helper whose except clause catches every exception, not only
\* CalledProcessError
ExpectCatchAll(o, C) ==
    IF o.kind = "Success"
    THEN [Outcome("DidNotFail", None, <<>>, <<>>, None, "did not fail")
             EXCEPT !.expected = Some(C)]
    ELSE IF o.kind = "NonZeroExit" /\ o.returncode[1] = C
    THEN Outcome("Pass", None, <<>>, <<>>, None, "")
    ELSE [Outcome("Mismatch", o.returncode, <<>>, <<>>, None, "failed with returncode")
             EXCEPT !.expected = Some(C)]

\* what the with statement of expect_returncode(C) makes of the way its
\* body ended
ExpectReturncodeResult(o, C) ==
    IF o.kind = "Success"
    THEN [Outcome("DidNotFail", None, <<>>, <<>>, None, "did not fail")
             EXCEPT !.expected = Some(C)]
    ELSE IF o.kind = "NonZeroExit"
    THEN IF o.returncode[1] = C
         THEN Outcome("Pass", None, <<>>, <<>>, None, "")
         ELSE [Outcome("Mismatch", o.returncode, <<>>, <<>>, None, "failed with returncode")
                  EXCEPT !.expected = Some(C)]
    ELSE o

\* expect_returncode: after the yield
ExpectReturncodeExit ==
    /\ pc = "returned"
    /\ testOutcome' = ExpectReturncodeResult(outcome, expected)
    /\ pc' = "done"
    /\ UNCHANGED <<inputs, timeout, stdout, stderr, returncode, sysStdout, sysStderr,
                   outcome, kills, prints, timedOut, family, now>>

\* ------------------------------------------- the child and its descendants

\* The family is followed from Popen until communicate() has returned or,
\* after a timeout, until the call has ended: once communicate() has
\* returned the child is reaped and no process holds a pipe, so no step of
\* the family reaches the harness any more.
Watched == pc \in {"communicate", "killpg", "fail", "popen_exit"} /\ returncode = None

\* communicate() reads the pipes; what is written after it raised
\* TimeoutExpired is never read
Reading == pc = "communicate"

\* the wait of communicate() can end, and the timeout has not passed
TrackComplete(ps) ==
    completeInTime' = (completeInTime \/ (CompleteIn(ps) /\ now < timeout))

\* fork(): the new process inherits the group and the open pipes
Fork(p) ==
    /\ Watched
    /\ Alive(p)
    /\ \E d \in Descendants :
        /\ procs[d].state = "none"
        /\ \A e \in Descendants : e < d => procs[e].state # "none"
        /\ procs' = [procs EXCEPT ![d] =
                [state |-> "running", pgid |-> procs[p].pgid,
                 holds |-> procs[p].holds]]
    /\ UNCHANGED <<inputs, harness, exitStatus, outBytes, errBytes, writes, exitInTime, completeInTime, now>>

\* setsid(): a descendant leaves the process group of the child
Setsid(d) ==
    /\ d \in Descendants
    /\ Watched
    /\ Alive(d)
    /\ procs[d].pgid # d
    /\ procs' = [procs EXCEPT ![d].pgid = d]
    /\ UNCHANGED <<inputs, harness, exitStatus, outBytes, errBytes, writes, exitInTime, completeInTime, now>>

\* write(1, chunk) and write(2, chunk)
Write(p, chunk) ==
    /\ Reading
    /\ Alive(p)
    /\ procs[p].holds
    /\ writes < MaxWrites
    /\ writes' = writes + 1
    /\ \/ outBytes' = outBytes \o chunk /\ UNCHANGED errBytes
       \/ errBytes' = errBytes \o chunk /\ UNCHANGED outBytes
    /\ UNCHANGED <<inputs, harness, procs, exitStatus, exitInTime, completeInTime, now>>

\* close(1); close(2)
CloseFds(p) ==
    /\ Watched
    /\ Alive(p)
    /\ procs[p].holds
    /\ procs' = [procs EXCEPT ![p].holds = FALSE]
    /\ TrackComplete(procs')
    /\ UNCHANGED <<inputs, harness, exitStatus, outBytes, errBytes, writes, exitInTime, now>>

\* exit(code)
Exit(p, code) ==
    /\ Watched
    /\ Alive(p)
    /\ IF p = Leader
       THEN /\ procs' = [procs EXCEPT ![p].state = "zombie", ![p].holds = FALSE]
            /\ exitStatus' = Some(code)
            /\ exitInTime' = (now < timeout)
       ELSE /\ procs' = [procs EXCEPT ![p].state = "dead", ![p].holds = FALSE]
            /\ UNCHANGED <<exitStatus, exitInTime>>
    /\ TrackComplete(procs')
    /\ UNCHANGED <<inputs, harness, outBytes, errBytes, writes, now>>

\* the kernel ends a process that was sent SIGKILL
Terminate(p) ==
    /\ Watched
    /\ procs[p].state = "dying"
    /\ IF p = Leader
       THEN /\ procs' = [procs EXCEPT ![p].state = "zombie", ![p].holds = FALSE]
            /\ exitStatus' = Some(0 - SIGKILL)
       ELSE /\ procs' = [procs EXCEPT ![p].state = "dead", ![p].holds = FALSE]
            /\ UNCHANGED exitStatus
    /\ TrackComplete(procs')
    /\ UNCHANGED <<inputs, harness, outBytes, errBytes, writes, exitInTime, now>>

\* The deadline is reached while communicate() is still blocked.  When the
\* child has exited and both pipes are at end-of-stream before the
\* deadline, communicate() returns before it; from the deadline on, a
\* communicate() that has not returned may raise TimeoutExpired, also when
\* the child completes at that very moment.
Tick ==
    /\ pc = "communicate"
    /\ ~Complete
    /\ now < timeout
    /\ now' = timeout
    /\ UNCHANGED <<inputs, harness, family>>

Next ==
    \/ ExpectReturncodeEnter
    \/ RunBinaryBegin
    \/ RunNativeBinaryBegin
    \/ Popen
    \/ CommunicateReturn
    \/ CommunicateTimeout
    \/ Killpg
    \/ FailTimeout
    \/ PrintOutput
    \/ CheckReturncode
    \/ PopenExit
    \/ ReturnDecoded
    \/ ExpectReturncodeExit
    \/ \E p \in Pids : Fork(p)
    \/ \E d \in Descendants : Setsid(d)
    \/ \E p \in Pids, chunk \in Chunks : Write(p, chunk)
    \/ \E p \in Pids : CloseFds(p)
    \/ \E p \in Pids, code \in ExitCodes : Exit(p, code)
    \/ \E p \in Pids : Terminate(p)
    \/ Tick

Spec == Init /\ [][Next]_vars

\* the steps of the test: one sequential Python thread
Harness ==
    \/ ExpectReturncodeEnter
    \/ RunBinaryBegin
    \/ RunNativeBinaryBegin
    \/ Popen
    \/ CommunicateReturn
    \/ CommunicateTimeout
    \/ Killpg
    \/ FailTimeout
    \/ PrintOutput
    \/ CheckReturncode
    \/ PopenExit
    \/ ReturnDecoded
    \/ ExpectReturncodeExit

\* The thread of the test keeps running, the timer of communicate() fires,
\* and the kernel ends a process that was sent SIGKILL. Nothing is assumed
\* of what the processes of the family do by themselves.
Fairness ==
    /\ WF_vars(Harness)
    /\ WF_vars(Tick)
    /\ \A p \in Pids : WF_vars(Terminate(p))

\* The tests of a build without SGX: HAS_SGX only chooses the value of
\* DEFAULT_TIMEOUT, and the clock of the model only tells before the timeout
\* from after it.
InitLive == Init /\ ~HAS_SGX

\* ------------------------------------------------- the other invocation
\* A second call of run_native_binary, made by another test at the same
\* time: its own Popen object, pipes and locals, kept in peer, and its child
\* in the process table of the system. Its child writes nothing and forks
\* nothing, and its timer runs by itself.

everything == <<HAS_SGX, entry, reqTimeout, expected, loaderExists, libpalExists, execOk,
                targetExists, environ, libpath, env, childEnv, harness,
                exitStatus, outBytes, errBytes, writes, exitInTime, completeInTime, now>>

\* the exit statuses of the child of the other invocation
PeerExitCodes == {0, 1}

\* with subprocess.Popen(..., preexec_fn=os.setpgrp) as process
PeerPopen ==
    /\ peer.pc = "idle"
    /\ procs' = [procs EXCEPT ![PeerLeader] =
                    [state |-> "running", pgid |-> PeerLeader, holds |-> FALSE]]
    /\ peer' = [peer EXCEPT !.pc = "communicate"]
    /\ UNCHANGED everything

\* the child of the other invocation exits by itself
PeerExit(code) ==
    /\ procs[PeerLeader].state = "running"
    /\ procs' = [procs EXCEPT ![PeerLeader].state = "zombie"]
    /\ peer' = [peer EXCEPT !.status = Some(code)]
    /\ UNCHANGED everything

\* the kernel ends the child of the other invocation after a SIGKILL
PeerTerminate ==
    /\ procs[PeerLeader].state = "dying"
    /\ procs' = [procs EXCEPT ![PeerLeader].state = "zombie"]
    /\ peer' = [peer EXCEPT !.status = Some(0 - SIGKILL)]
    /\ UNCHANGED everything

\* communicate() returns, then the returncode is classified
PeerCommunicateReturn ==
    /\ peer.pc = "communicate"
    /\ procs[PeerLeader].state = "zombie"
    /\ procs' = [procs EXCEPT ![PeerLeader].state = "reaped"]
    /\ peer' = [peer EXCEPT !.pc = "returned",
                            !.returncode = peer.status,
                            !.outcome = IF peer.status[1] # 0 THEN "NonZeroExit"
                                                              ELSE "Success"]
    /\ UNCHANGED everything

\* communicate() raises TimeoutExpired
PeerCommunicateTimeout ==
    /\ peer.pc = "communicate"
    /\ peer' = [peer EXCEPT !.pc = "killpg"]
    /\ UNCHANGED <<everything, procs>>

\* os.killpg(process.pid, signal.SIGKILL), then the timeout failure
PeerKillpg ==
    /\ peer.pc = "killpg"
    /\ procs' = [p \in AllPids |->
                    IF p \in GroupMembers(PeerLeader) /\ procs[p].state = "running"
                    THEN [procs[p] EXCEPT !.state = "dying"]
                    ELSE procs[p]]
    /\ peer' = [peer EXCEPT !.pc = "popen_exit", !.kills = peer.kills + 1,
                            !.outcome = "Timeout"]
    /\ UNCHANGED everything

\* Popen.__exit__ waits for the child
PeerPopenExit ==
    /\ peer.pc = "popen_exit"
    /\ procs[PeerLeader].state = "zombie"
    /\ procs' = [procs EXCEPT ![PeerLeader].state = "reaped"]
    /\ peer' = [peer EXCEPT !.pc = "returned", !.returncode = peer.status]
    /\ UNCHANGED everything

\* Two tests at the same time, without SGX, each calling run_native_binary
\* with no timeout argument on a binary the OS accepts to run.
InitTwo ==
    /\ HAS_SGX = FALSE
    /\ entry = "run_native_binary"
    /\ reqTimeout = None
    /\ expected = 1
    /\ loaderExists = TRUE
    /\ libpalExists = TRUE
    /\ execOk = TRUE
    /\ targetExists = TRUE
    /\ environ = [n \in Names |-> None]
    /\ libpath = None
    /\ env = None
    /\ InitRun

NextTwo ==
    \/ ExpectReturncodeEnter
    \/ RunNativeBinaryBegin
    \/ Popen
    \/ CommunicateReturn
    \/ CommunicateTimeout
    \/ Killpg
    \/ FailTimeout
    \/ PrintOutput
    \/ CheckReturncode
    \/ PopenExit
    \/ ReturnDecoded
    \/ ExpectReturncodeExit
    \/ \E p \in Pids : Fork(p)
    \/ \E d \in Descendants : Setsid(d)
    \/ \E p \in Pids, chunk \in Chunks : Write(p, chunk)
    \/ \E p \in Pids : CloseFds(p)
    \/ \E p \in Pids, code \in ExitCodes : Exit(p, code)
    \/ \E p \in Pids : Terminate(p)
    \/ Tick
    \/ PeerPopen
    \/ \E code \in PeerExitCodes : PeerExit(code)
    \/ PeerTerminate
    \/ PeerCommunicateReturn
    \/ PeerCommunicateTimeout
    \/ PeerKillpg
    \/ PeerPopenExit

SpecTwo == InitTwo /\ [][NextTwo]_vars

\* The launch: the tests that call run_binary, run_gdb or run_native_binary
\* with or without env and libpath, on a binary that exists or not, in any
\* environment, followed up to the creation of the process.
InitLaunch ==
    /\ HAS_SGX \in BOOLEAN
    /\ entry \in {"run_binary", "run_gdb", "run_native_binary"}
    /\ reqTimeout = None
    /\ expected = 1
    /\ loaderExists \in BOOLEAN
    /\ libpalExists \in BOOLEAN
    /\ execOk \in BOOLEAN
    /\ targetExists \in BOOLEAN
    /\ environ \in Environs
    /\ libpath \in {None} \cup {Some(v) : v \in Values}
    /\ env \in {None} \cup {Some(e) : e \in Environs}
    /\ entry = "run_native_binary" => loaderExists /\ libpalExists
    \* Popen executes args[0] in run_native_binary: no process without it
    /\ (entry = "run_native_binary" /\ ~targetExists) => ~execOk
    \* libpath is a parameter of run_native_binary alone; an env keyword to
    \* run_gdb or run_native_binary is a second env argument, a TypeError
    /\ entry # "run_native_binary" => libpath = None
    /\ entry # "run_binary" => env = None
    /\ InitRun

NextLaunch ==
    \/ ExpectReturncodeEnter
    \/ RunGdbBegin
    \/ RunBinaryBegin
    \/ RunNativeBinaryBegin
    \/ Popen
    \/ ExpectReturncodeExit

SpecLaunch == InitLaunch /\ [][NextLaunch]_vars

SpecLive == InitLive /\ [][Next]_vars /\ Fairness

\* ----------------------------------------------------------------- claims

\* the call of run_binary / run_native_binary has returned or raised
Returned == pc \in {"returned", "done"}

\* the processes of the group Popen created for the child
InGroup(p) == procs[p].pgid = Leader

C2_KillOnceAfterTimeout ==
    /\ kills <= 1
    /\ kills = 1 => timedOut /\ now >= timeout
    /\ outcome.kind \in {"Success", "NonZeroExit"} => kills = 0
    /\ prints > 0 => kills = 0

\* C2 witness: the child exited by itself at the deadline, the harness had
\* already seen the timeout: the group was killed once and the call failed
\* with Timeout
C2_Witness ==
    /\ pc = "done"
    /\ kills = 1
    /\ exitStatus # None
    /\ exitStatus[1] >= 0
    /\ outcome.kind = "Timeout"

\* C3: a call whose target exits with code 0, with both pipes at
\* end-of-stream, before the timeout ends in Success, and the returned
\* stdout and stderr are, byte for byte, what was written to each pipe.
\* (The claim asks this of every target that exits with 0 in time; this is
\* the claim for those whose pipes are at end-of-stream in time as well.)
C3_SuccessExactOutput ==
    (Returned /\ completeInTime /\ exitStatus = Some(0)) =>
        /\ outcome.kind = "Success"
        /\ Encode(outcome.stdout) = outBytes
        /\ Encode(outcome.stderr) = errBytes

\* C4 as claimed: a call whose target exits with a nonzero status k before
\* the timeout ends in NonZeroExit with returncode k and everything written
\* to stdout and stderr.
C4_Original ==
    (Returned /\ exitInTime /\ exitStatus[1] # 0) =>
        /\ outcome.kind = "NonZeroExit"
        /\ outcome.returncode = exitStatus
        /\ outcome.stdout = outBytes
        /\ outcome.stderr = errBytes

\* C4 as amended: a call whose target exits with a nonzero status k and
\* whose two pipes reach end-of-stream (no descendant holds them open any
\* more) before the timeout ends in NonZeroExit with returncode k and
\* everything written to stdout and stderr; and every NonZeroExit carries
\* the status of the child and everything written.
C4_NonZeroExitExact ==
    /\ (Returned /\ completeInTime /\ exitStatus[1] # 0) =>
            outcome.kind = "NonZeroExit"
    /\ outcome.kind = "NonZeroExit" =>
            /\ outcome.returncode = exitStatus
            /\ outcome.returncode[1] # 0
            /\ outcome.stdout = outBytes
            /\ outcome.stderr = errBytes

\* C4 witness: the child wrote to a pipe and exited with 2 in time
C4_Witness ==
    /\ pc = "done"
    /\ completeInTime
    /\ exitStatus = Some(2)
    /\ outcome.kind = "NonZeroExit"
    /\ outcome.stdout # outcome.stderr

\* the timeout has been assigned in the call
TimeoutAssigned == pc \notin {"expect_enter", "call"} /\ expected # 0

\* C5: the timeout of the wait, which the timeout failure reports, is the
\* default when none is requested and max(default, requested) for every
\* requested value >= 0, in run_binary and in run_native_binary; the
\* default is 20 with SGX and 10 without; the timeout is never below the
\* default and grows with the requested value (the function of the
\* requested value is looked at once, before the test starts).
C5_EffectiveTimeout ==
    /\ TimeoutAssigned =>
        /\ HAS_SGX => timeout >= 20
        /\ ~HAS_SGX => timeout >= 10
        /\ reqTimeout = None => timeout = (IF HAS_SGX THEN 20 ELSE 10)
        /\ reqTimeout # None =>
            /\ timeout >= reqTimeout[1]
            /\ timeout = reqTimeout[1] \/ timeout = (IF HAS_SGX THEN 20 ELSE 10)
    /\ timedOut => now >= timeout
    /\ outcome.kind = "Timeout" => outcome.timeout = Some(timeout)
    /\ pc = "expect_enter" => \A d \in {10, 20} : \A r \in 0..MaxRequested :
        /\ EffectiveTimeout(d, None) = d
        /\ EffectiveTimeout(d, Some(r)) >= d
        /\ EffectiveTimeout(d, Some(r)) >= r
        /\ EffectiveTimeout(d, Some(r)) \in {d, r}
        /\ \A q \in 0..r : EffectiveTimeout(d, Some(q)) <= EffectiveTimeout(d, Some(r))

\* C5 witness: a requested timeout above the default was waited for and is
\* reported in the timeout failure of run_native_binary
C5_Witness ==
    /\ pc = "done"
    /\ entry = "run_native_binary"
    /\ reqTimeout # None
    /\ outcome.kind = "Timeout"
    /\ outcome.timeout = reqTimeout
    /\ reqTimeout[1] > DEFAULT_TIMEOUT

\* C6: a call that has ended has one outcome out of Success, NonZeroExit,
\* Timeout, launch error and configuration error; a call that killed the
\* group reports Timeout, and a Timeout carries no output.
C6_OutcomeKinds ==
    /\ Returned /\ expected # 0 =>
        outcome.kind \in {"Success", "NonZeroExit", "Timeout", "LaunchError", "ConfigError"}
    /\ kills > 0 /\ Returned => outcome.kind = "Timeout"
    /\ outcome.kind = "Timeout" => outcome.stdout = <<>> /\ outcome.stderr = <<>>

\* C7: for expect_returncode(C) with C # 0: a body that returns makes the
\* test fail with 'did not fail (expected C)'; a body that raises
\* CalledProcessError with returncode C is a pass and the error is
\* suppressed; one with another returncode makes the test fail with a
\* message of the actual returncode and of C.
C7_ExpectReturncode ==
    (pc = "done" /\ expected # 0) =>
        /\ outcome.kind = "Success" =>
            /\ testOutcome.kind = "DidNotFail"
            /\ testOutcome.expected = Some(expected)
        /\ (outcome.kind = "NonZeroExit" /\ outcome.returncode[1] = expected) =>
            testOutcome.kind = "Pass"
        /\ (outcome.kind = "NonZeroExit" /\ outcome.returncode[1] # expected) =>
            /\ testOutcome.kind = "Mismatch"
            /\ testOutcome.returncode = outcome.returncode
            /\ testOutcome.expected = Some(expected)

\* C7 witness: the child exited with 2 where 1 was expected
C7_Witness ==
    /\ pc = "done"
    /\ expected = 1
    /\ outcome.kind = "NonZeroExit"
    /\ outcome.returncode = Some(2)
    /\ testOutcome.kind = "Mismatch"

\* C8: expect_returncode(0) raises ValueError before its body runs: the
\* call is never entered and no process is created.
C8_ExpectZeroRaisesFirst ==
    expected = 0 =>
        /\ pc \in {"expect_enter", "done"}
        /\ pc = "done" => testOutcome.kind = "ValueError"
        /\ outcome = NoOutcome
        /\ timeout = 0
        /\ \A p \in Pids : procs[p].state = "none"

\* C8 witness: a test with expect_returncode(0) has ended
C8_Witness ==
    /\ pc = "done"
    /\ expected = 0
    /\ testOutcome.kind = "ValueError"

\* C9: a Timeout or a launch error of the body of expect_returncode(C),
\* C # 0, reaches the caller as it is.
C9_OtherFailuresPropagate ==
    (pc = "done" /\ expected # 0 /\ outcome.kind \in {"Timeout", "LaunchError"}) =>
        testOutcome = outcome

\* C9 witness: the body timed out under expect_returncode(1)
C9_Witness ==
    /\ pc = "done"
    /\ expected = 1
    /\ outcome.kind = "Timeout"
    /\ kills = 1
    /\ testOutcome.kind = "Timeout"

\* C10: whenever communicate() returned, whatever the returncode, what was
\* written to the two pipes has been forwarded, once and each to its own
\* stream, to sys.stdout and sys.stderr before the call returns or raises;
\* a call that timed out forwards nothing.
C10_OutputForwarded ==
    /\ (returncode # None /\ ~timedOut /\ (outcome.kind # "None" \/ Returned)) =>
        /\ prints = 1
        /\ Encode(sysStdout) = outBytes
        /\ Encode(sysStderr) = errBytes
    /\ outcome.kind \in {"Success", "NonZeroExit", "UnicodeDecodeError"} =>
        returncode # None /\ ~timedOut
    /\ timedOut =>
        /\ prints = 0
        /\ sysStdout = <<>>
        /\ sysStderr = <<>>

\* C10 witness: a child that failed had written a byte that is not UTF-8
\* to stderr, and it was forwarded to sys.stderr
C10_Witness ==
    /\ pc = "done"
    /\ outcome.kind = "NonZeroExit"
    /\ errBytes = <<255>>
    /\ sysStderr = <<56575>>
    /\ sysStdout = <<>>

\* C11: output is forwarded to sys.stdout / sys.stderr only after the wait
\* has ended with the child terminated and waited for and both pipes at
\* end-of-stream: nothing is forwarded while the child runs or while
\* communicate() is pending.
C11_ForwardAfterTermination ==
    (prints > 0 \/ sysStdout # <<>> \/ sysStderr # <<>>) =>
        /\ procs[Leader].state = "reaped"
        /\ \A p \in Pids : ~HoldsPipes(procs, p)
        /\ returncode # None
        /\ pc \notin {"popen", "communicate", "print_output"}

\* C11 witness: the output of a child that has exited has just been
\* forwarded
C11_Witness ==
    /\ pc = "check_returncode"
    /\ prints = 1
    /\ sysStdout # <<>>
    /\ procs[Leader].state = "reaped"

\* C12: in run_binary a loader or a libpal that does not exist ends the
\* call in a test failure that names the missing one, and no process is
\* created, nothing is killed, captured or forwarded.
C12_MissingArtifactFails ==
    (entry = "run_binary" /\ expected # 0 /\ (~loaderExists \/ ~libpalExists)) =>
        /\ pc \in {"expect_enter", "call", "returned", "done"}
        /\ Returned =>
            /\ outcome.kind = "ConfigError"
            /\ outcome.msg = IF ~loaderExists THEN "loader not found"
                                              ELSE "libpal not found"
        /\ \A p \in Pids : procs[p].state = "none"
        /\ kills = 0
        /\ prints = 0
        /\ stdout = <<>> /\ stderr = <<>> /\ returncode = None
        /\ sysStdout = <<>> /\ sysStderr = <<>>

\* C12 witness: run_binary found the loader and not libpal
C12_Witness ==
    /\ pc = "done"
    /\ entry = "run_binary"
    /\ loaderExists
    /\ ~libpalExists
    /\ outcome.msg = "libpal not found"

\* the checks before Popen are passed and the OS refuses the process
LaunchRefused == expected # 0 /\ loaderExists /\ libpalExists /\ ~execOk

\* C14: when the OS refuses to create the process the launch error is the
\* outcome of the call, and reaches the caller as it is: it is no Timeout and
\* no NonZeroExit, no wait is started, nothing is killed or forwarded.
C14_LaunchErrorPropagates ==
    LaunchRefused =>
        /\ pc \in {"expect_enter", "call", "popen", "returned", "done"}
        /\ Returned => outcome.kind = "LaunchError"
        /\ pc = "done" => testOutcome = outcome
        /\ now = 0
        /\ ~timedOut
        /\ kills = 0
        /\ prints = 0
        /\ returncode = None
        /\ \A p \in Pids : procs[p].state = "none"

\* C14 witness: run_native_binary ended in the launch error
C14_Witness ==
    /\ pc = "done"
    /\ entry = "run_native_binary"
    /\ ~execOk
    /\ testOutcome.kind = "LaunchError"

\* C17: the kind of the outcome follows from the exit status alone,
\* whatever bytes the child wrote: when communicate() returned, a status 0
\* gives Success and a nonzero status gives NonZeroExit.
C17_KindFromStatusOnly ==
    (Returned /\ ~timedOut /\ returncode # None) =>
        /\ returncode[1] = 0 => outcome.kind = "Success"
        /\ returncode[1] # 0 => outcome.kind = "NonZeroExit"

\* C18: the child is the leader of a group of its own from the moment it
\* exists, so that whenever a descendant exists the group does, and no
\* process of the family is ever in the group of the harness; the kill goes
\* to that group: after it, the descendants that can still run are those
\* that left the group by themselves.
C18_GroupFromCreation ==
    /\ \A p \in Pids : procs[p].state # "none" =>
            /\ procs[Leader].state # "none"
            /\ procs[Leader].pgid = Leader
            /\ procs[p].pgid \in Pids
    /\ kills = 1 => \A d \in Descendants : Alive(d) => procs[d].pgid \in Descendants

\* C18 witness: the kill has just reached a descendant in the group
C18_Witness ==
    /\ pc = "fail"
    /\ kills = 1
    /\ procs[Leader].state = "dying"
    /\ \E d \in Descendants : InGroup(d) /\ procs[d].state = "dying"

\* C19: every call returns to the caller, and the test ends: the wait ends
\* by the completion of communicate() or by the timeout, and a call that
\* created the child returns only once the child has been waited for,
\* killed or not.
C19_EventuallyReturns ==
    /\ <>(pc = "done")
    /\ [](Returned /\ procs[Leader].state # "none" => procs[Leader].state = "reaped")
    /\ [](Returned /\ timedOut =>
            kills = 1 /\ exitStatus # None /\ procs[Leader].state = "reaped")

\* C19 witness: the call returned after the timeout, the child having been
\* ended by the SIGKILL and waited for
C19_Witness ==
    /\ pc = "done"
    /\ timedOut
    /\ exitStatus = Some(0 - SIGKILL)
    /\ procs[Leader].state = "reaped"

\* the outcome of the supervision of a child, from what the child did (st its
\* exit status, out and err what it wrote), whether the wait timed out and
\* the timeout t of the wait; the entry point is no argument of it
Supervised(to, st, out, err, t) ==
    IF to
    THEN Outcome("Timeout", None, <<>>, <<>>, Some(t), "timeout expired")
    ELSE IF st[1] # 0
    THEN Outcome("NonZeroExit", st, out, err, None, "")
    ELSE IF Decode(out).ok /\ Decode(err).ok
    THEN Outcome("Success", None, Decode(out).text, Decode(err).text, None, "")
    ELSE Outcome("UnicodeDecodeError", None, <<>>, <<>>, None, "")

\* C20: run_binary and run_native_binary supervise the child alike: once the
\* child is created, the timeout of the wait, the events of the call (one
\* kill of the group exactly when the wait timed out, one forwarding of the
\* output exactly when it did not) and the outcome with its exit code and
\* output are the same function of the requested timeout and of what the
\* child did, whichever entry point was called.
C20_SameProtocol ==
    /\ procs[Leader].state # "none" =>
        /\ timeout = EffectiveTimeout(DEFAULT_TIMEOUT, reqTimeout)
        /\ procs[Leader].pgid = Leader
        /\ kills > 0 => timedOut
        /\ prints > 0 => ~timedOut /\ returncode # None
    /\ (Returned /\ procs[Leader].state # "none") =>
        /\ kills = (IF timedOut THEN 1 ELSE 0)
        /\ prints = (IF timedOut THEN 0 ELSE 1)
        /\ ~timedOut => stdout = outBytes /\ stderr = errBytes /\ returncode = exitStatus
        /\ outcome = Supervised(timedOut, exitStatus, outBytes, errBytes, timeout)

\* C20 witness: run_native_binary reported the nonzero exit of a child that
\* wrote to stderr
C20_Witness ==
    /\ pc = "done"
    /\ entry = "run_native_binary"
    /\ outcome.kind = "NonZeroExit"
    /\ outcome.stderr # <<>>
    /\ prints = 1

\* the variables of e that o does not name, and those of o
Merge(e, o) == [n \in Names |-> IF o[n] # None THEN o[n] ELSE e[n]]

\* the overrides a call supplies, as an environment of the overridden names
Overrides ==
    IF entry = "run_binary" /\ env # None THEN env[1]
    ELSE IF entry = "run_native_binary" /\ libpath # None
    THEN [n \in Names |-> IF n = "LD_LIBRARY_PATH" THEN Some(libpath[1]) ELSE None]
    ELSE [n \in Names |-> None]

\* C13: whichever entry point is called, a target binary that does not
\* exist ends the call in a test failure raised before Popen is reached:
\* no process creation is attempted and the outcome is no launch error.
C13_MissingTargetFailsFirst ==
    ~targetExists =>
        /\ pc \in {"expect_enter", "call", "run_binary", "returned", "done"}
        /\ Returned => outcome.kind = "ConfigError"
        /\ \A p \in Pids : procs[p].state = "none"

\* C15: the environment of the created process is os.environ merged with the
\* overrides of the call, the env keyword of run_binary or the libpath of
\* run_native_binary: a variable the overrides do not name keeps its
\* inherited value, an overridden one has the value of the override.
C15_EnvironmentMerged ==
    (entry \in {"run_binary", "run_native_binary"} /\ childEnv # None) =>
        childEnv[1] = Merge(environ, Overrides)

\* C15, amended: the environment of the process run_native_binary creates is
\* os.environ with LD_LIBRARY_PATH set to libpath when libpath is given, and
\* that of run_gdb is os.environ with, under SGX, sgx_gdb.so and a colon put
\* in front of the inherited LD_PRELOAD: every other variable is there with
\* its inherited value. An env keyword given to run_binary is not merged: it
\* is the whole environment of the process.
C15_EnvironmentBuilt ==
    childEnv # None =>
        /\ entry = "run_native_binary" =>
            /\ \A n \in Names \ {"LD_LIBRARY_PATH"} : childEnv[1][n] = environ[n]
            /\ childEnv[1]["LD_LIBRARY_PATH"] =
                    (IF libpath # None THEN libpath ELSE environ["LD_LIBRARY_PATH"])
        /\ entry = "run_gdb" =>
            /\ \A n \in Names \ {"LD_PRELOAD"} : childEnv[1][n] = environ[n]
            /\ ~HAS_SGX => childEnv[1]["LD_PRELOAD"] = environ["LD_PRELOAD"]
            /\ HAS_SGX =>
                /\ childEnv[1]["LD_PRELOAD"] # None
                /\ LET v == childEnv[1]["LD_PRELOAD"][1]
                   IN  /\ Len(v) >= 2
                       /\ SubSeq(v, 1, 2) = <<"sgx_gdb.so", ":">>
                       /\ SubSeq(v, 3, Len(v)) =
                            (IF environ["LD_PRELOAD"] # None
                             THEN environ["LD_PRELOAD"][1] ELSE <<>>)
        /\ entry = "run_binary" =>
            \A n \in Names :
                childEnv[1][n] = (IF env # None THEN env[1][n] ELSE environ[n])

\* C15 witness: run_native_binary created a process with a libpath that
\* differs from the inherited LD_LIBRARY_PATH, HOME being set
C15_Witness ==
    /\ pc = "communicate"
    /\ entry = "run_native_binary"
    /\ childEnv # None
    /\ libpath = Some(<<"b">>)
    /\ environ["LD_LIBRARY_PATH"] = Some(<<"a">>)
    /\ environ["HOME"] = Some(<<"a">>)

\* the child of the other invocation was sent a SIGKILL
PeerKilled == procs[PeerLeader].state = "dying" \/ peer.status = Some(0 - SIGKILL)

\* C16: of two invocations that run at the same time each has its own child
\* and group: a process is sent SIGKILL only by the kill of the invocation
\* that created it, and the outcome and output of each invocation are those
\* its own child and its own timeout give.
C16_IndependentInvocations ==
    /\ procs[Leader].state # "none" => procs[Leader].pgid = Leader
    /\ procs[PeerLeader].state # "none" => procs[PeerLeader].pgid = PeerLeader
    /\ PeerKilled => peer.kills = 1
    /\ \A p \in Pids : procs[p].state = "dying" => kills = 1
    /\ exitStatus = Some(0 - SIGKILL) => kills = 1
    /\ Returned =>
        outcome = Supervised(timedOut, exitStatus, outBytes, errBytes, timeout)
    /\ peer.pc = "returned" =>
        /\ peer.returncode = peer.status
        /\ peer.outcome = (IF peer.kills = 1 THEN "Timeout"
                           ELSE IF peer.status[1] # 0 THEN "NonZeroExit"
                           ELSE "Success")

\* C16 witness: one invocation has killed its group while the child of the
\* other runs on, to exit by itself later
C16_Witness ==
    /\ kills = 1
    /\ procs[Leader].state = "dying"
    /\ procs[PeerLeader].state = "running"
    /\ peer.pc = "communicate"

====
